---------------------------- MODULE Spec2Model ----------------------------
(***************************************************************************)
(* Carrier-recovery loop of digital_constellation_receiver_cb              *)
(* (gr-digital/lib/digital_constellation_receiver_cb.cc).                  *)
(*                                                                         *)
(* Number representation.                                                  *)
(*  - Angles (d_phase, d_freq, d_min_freq, d_max_freq, phase_error) are    *)
(*    integers counting units of pi/M_PI radians.  The members are C       *)
(*    floats: the representable ones are the multiples of FloatStep.       *)
(*    M_TWOPI is a double (2*M_PI) whose significand does not fit a float, *)
(*    so it is NOT a multiple of FloatStep; every store of a double        *)
(*    expression into a float member rounds to the nearest float.          *)
(*  - Gains (d_loop_bw, d_damping, d_alpha, d_beta) are floats counted in  *)
(*    units of 1/GainOne, so GainOne is 1.0.                               *)
(*  - A complex sample is modelled by its argument, an angle normalised    *)
(*    into (-M_PI, M_PI].                                                  *)
(***************************************************************************)
EXTENDS Integers, Sequences, FiniteSets, TLC

\* ------------------------------------------------------------------ bounds
GainOne == 4
\* largest loop bandwidth tried, in units of 1/GainOne
MaxBw == 8
\* largest |fmin|, |fmax| and set_frequency argument, in floats (FloatStep units)
MaxFreq == 2
\* largest |phase| handed to set_phase, in floats
MaxPhase == 16
\* largest |phase_error| handed to phase_error_tracking, in floats
MaxErr == 4
\* largest noutput_items / ninput_items[0] of one general_work call
MaxItems == 2

\* --------------------------------------------------------------- constants
\* M_PI, in angle units (line 35: #define M_TWOPI (2*M_PI))
M_PI == 11
M_TWOPI == 2 * M_PI
\* spacing of the float values on the angle axis; M_TWOPI is not a multiple
FloatStep == 3

\* ----------------------------------------------------------------- helpers
Abs(x) == IF x < 0 THEN -x ELSE x
Min(a, b) == IF a < b THEN a ELSE b

\* n/d (d > 0) rounded to the nearest integer, ties to even
RoundNearest(n, d) ==
  LET q == (2 * n + d) \div (2 * d)
  IN  IF (2 * n + d) % (2 * d) = 0 /\ q % 2 = 1 THEN q - 1 ELSE q

\* a double angle x stored into a float
ToFloat(x) == FloatStep * RoundNearest(x, FloatStep)

\* float product gain * angle (d_beta*phase_error, d_alpha*phase_error)
FMul(g, x) == FloatStep * RoundNearest(g * x, FloatStep * GainOne)

\* the float angles with at most k steps of magnitude
Floats(k) == { FloatStep * n : n \in (-k)..k }

\* sqrtf(2.0f)/2.0f as a gain
SqrtHalf == RoundNearest(7071 * GainOne, 10000)

\* gr_branchless_clip(x, clip) of gr_math.h:
\*   x1 = fabsf(x+clip); x2 = fabsf(x-clip); x1 -= x2; return 0.5*x1;
gr_branchless_clip(x, clip) == (Abs(x + clip) - Abs(x - clip)) \div 2

\* while(d_phase>M_TWOPI) d_phase -= M_TWOPI;
RECURSIVE WrapDown(_)
WrapDown(p) == IF p > M_TWOPI THEN WrapDown(ToFloat(p - M_TWOPI)) ELSE p

\* while(d_phase<-M_TWOPI) d_phase += M_TWOPI;
RECURSIVE WrapUp(_)
WrapUp(p) == IF p < -M_TWOPI THEN WrapUp(ToFloat(p + M_TWOPI)) ELSE p

\* mutant: only the first of the two loops
WrapPhase_upper_only(p) == WrapDown(p)

WrapPhase(p) == WrapUp(WrapDown(p))

\* mutant: the denominator without its bw*bw term
GainDenom_linear(df, bw) == RoundNearest(GainOne * GainOne + 2 * df * bw, GainOne)

\* update_gains(): the (d_alpha, d_beta) derived from (d_damping, d_loop_bw)
GainDenom(df, bw) == RoundNearest(GainOne * GainOne + 2 * df * bw + bw * bw, GainOne)
GainAlpha(df, bw) ==
  RoundNearest(GainOne * RoundNearest(4 * df * bw, GainOne), GainDenom(df, bw))
GainBeta(df, bw) ==
  RoundNearest(GainOne * RoundNearest(4 * bw * bw, GainOne), GainDenom(df, bw))

\* ------------------------------------------------------------------- state
VARIABLES
  d_phase, d_freq, d_max_freq, d_min_freq,   \* NCO state and search bounds
  d_loop_bw, d_damping, d_alpha, d_beta,     \* loop filter
  last,                                      \* the last call: [op, arg, thrown]
  pc,                                        \* "idle", or "loop" inside general_work
  noutput_items, ninput_items, nchan,        \* arguments of the running general_work
  in, i, sample, phase_error,                \* input buffer, loop index, locals
  out, out_err, out_phase, out_freq,         \* output buffers: a slot is <<>> until written
  consumed, ret                              \* consume_each(i) and the return value

loopvars == <<d_phase, d_freq, d_max_freq, d_min_freq,
              d_loop_bw, d_damping, d_alpha, d_beta>>
workvars == <<pc, noutput_items, ninput_items, nchan, in, i, sample, phase_error,
              out, out_err, out_phase, out_freq, consumed, ret>>
vars == <<loopvars, last, workvars>>

Call(op, arg, thrown) == [op |-> op, arg |-> arg, thrown |-> thrown]

\* ------------------------------------------------------------ construction
ctor(loop_bw, fmin, fmax) ==
  /\ loop_bw >= 0
  /\ d_freq = 0 /\ d_max_freq = fmax /\ d_min_freq = fmin /\ d_phase = 0
  /\ d_damping = SqrtHalf
  /\ d_loop_bw = loop_bw
  /\ d_alpha = GainAlpha(SqrtHalf, loop_bw)
  /\ d_beta = GainBeta(SqrtHalf, loop_bw)
  /\ last = Call("ctor", loop_bw, FALSE)
  /\ pc = "idle"
  /\ noutput_items = 0 /\ ninput_items = 0 /\ nchan = 1
  /\ in = <<>> /\ i = 0 /\ sample = 0 /\ phase_error = 0
  /\ out = <<>> /\ out_err = <<>> /\ out_phase = <<>> /\ out_freq = <<>>
  /\ consumed = 0 /\ ret = 0

\* the search ranges the block is constructed with: fmin <= fmax
BoundPairs == { b \in Floats(MaxFreq) \X Floats(MaxFreq) : b[1] <= b[2] }

\* Spec: the parameter interface, constructed with every loop bandwidth
Init == \E bw \in 0..MaxBw : ctor(bw, -FloatStep, 2 * FloatStep)

\* ----------------------------------------------------------------- setters
set_loop_bandwidth(bw) ==
  /\ pc = "idle"
  /\ IF bw < 0
       THEN /\ last' = Call("set_loop_bandwidth", bw, TRUE)
            /\ UNCHANGED loopvars
       ELSE /\ d_loop_bw' = bw
            /\ d_alpha' = GainAlpha(d_damping, bw)
            /\ d_beta' = GainBeta(d_damping, bw)
            /\ last' = Call("set_loop_bandwidth", bw, FALSE)
            /\ UNCHANGED <<d_phase, d_freq, d_max_freq, d_min_freq, d_damping>>
  /\ UNCHANGED workvars

set_damping_factor(df) ==
  /\ pc = "idle"
  /\ IF df < 0 \/ df > GainOne
       THEN /\ last' = Call("set_damping_factor", df, TRUE)
            /\ UNCHANGED loopvars
       ELSE /\ d_damping' = df
            /\ d_alpha' = GainAlpha(df, d_loop_bw)
            /\ d_beta' = GainBeta(df, d_loop_bw)
            /\ last' = Call("set_damping_factor", df, FALSE)
            /\ UNCHANGED <<d_phase, d_freq, d_max_freq, d_min_freq, d_loop_bw>>
  /\ UNCHANGED workvars

set_alpha(alpha) ==
  /\ pc = "idle"
  /\ IF alpha < 0 \/ alpha > GainOne
       THEN /\ last' = Call("set_alpha", alpha, TRUE)
            /\ UNCHANGED loopvars
       ELSE /\ d_alpha' = alpha
            /\ last' = Call("set_alpha", alpha, FALSE)
            /\ UNCHANGED <<d_phase, d_freq, d_max_freq, d_min_freq,
                           d_loop_bw, d_damping, d_beta>>
  /\ UNCHANGED workvars

\* mutant: the gain is stored before the range check throws
set_beta_store_first(beta) ==
  /\ pc = "idle"
  /\ d_beta' = beta
  /\ last' = Call("set_beta", beta, beta < 0 \/ beta > GainOne)
  /\ UNCHANGED <<d_phase, d_freq, d_max_freq, d_min_freq,
                 d_loop_bw, d_damping, d_alpha>>
  /\ UNCHANGED workvars

set_beta(beta) ==
  /\ pc = "idle"
  /\ IF beta < 0 \/ beta > GainOne
       THEN /\ last' = Call("set_beta", beta, TRUE)
            /\ UNCHANGED loopvars
       ELSE /\ d_beta' = beta
            /\ last' = Call("set_beta", beta, FALSE)
            /\ UNCHANGED <<d_phase, d_freq, d_max_freq, d_min_freq,
                           d_loop_bw, d_damping, d_alpha>>
  /\ UNCHANGED workvars

\* mutant: the frequency is clamped to the bound it crosses
set_frequency_clamp(freq) ==
  /\ pc = "idle"
  /\ d_freq' = IF freq > d_max_freq THEN d_max_freq
               ELSE IF freq < d_min_freq THEN d_min_freq
               ELSE freq
  /\ last' = Call("set_frequency", freq, FALSE)
  /\ UNCHANGED <<d_phase, d_max_freq, d_min_freq,
                 d_loop_bw, d_damping, d_alpha, d_beta>>
  /\ UNCHANGED workvars

\* mutant: the frequency is stored without looking at the bounds
set_frequency_unchecked(freq) ==
  /\ pc = "idle"
  /\ d_freq' = freq
  /\ last' = Call("set_frequency", freq, FALSE)
  /\ UNCHANGED <<d_phase, d_max_freq, d_min_freq,
                 d_loop_bw, d_damping, d_alpha, d_beta>>
  /\ UNCHANGED workvars

set_frequency(freq) ==
  /\ pc = "idle"
  /\ d_freq' = IF freq > d_max_freq THEN d_min_freq
               ELSE IF freq < d_min_freq THEN d_max_freq
               ELSE freq
  /\ last' = Call("set_frequency", freq, FALSE)
  /\ UNCHANGED <<d_phase, d_max_freq, d_min_freq,
                 d_loop_bw, d_damping, d_alpha, d_beta>>
  /\ UNCHANGED workvars

set_phase(phase) ==
  /\ pc = "idle"
  /\ d_phase' = WrapPhase(phase)
  /\ last' = Call("set_phase", phase, FALSE)
  /\ UNCHANGED <<d_freq, d_max_freq, d_min_freq,
                 d_loop_bw, d_damping, d_alpha, d_beta>>
  /\ UNCHANGED workvars

\* ---------------------------------------------------------------- tracking
\* mutant: the frequency is left unclipped
phase_error_tracking_noclip(pe) ==
  LET f1 == d_freq + FMul(d_beta, pe)
      p1 == d_phase + (f1 + FMul(d_alpha, pe))
  IN  /\ d_phase' = WrapPhase(p1)
      /\ d_freq' = f1
      /\ UNCHANGED <<d_max_freq, d_min_freq, d_loop_bw, d_damping, d_alpha, d_beta>>

\* mutant: the frequency is clipped before the phase update uses it
phase_error_tracking_clip_first(pe) ==
  LET f1 == gr_branchless_clip(d_freq + FMul(d_beta, pe), d_max_freq)
      p1 == d_phase + (f1 + FMul(d_alpha, pe))
  IN  /\ d_phase' = WrapPhase(p1)
      /\ d_freq' = f1
      /\ UNCHANGED <<d_max_freq, d_min_freq, d_loop_bw, d_damping, d_alpha, d_beta>>

\* The body of phase_error_tracking(phase_error), on the loop state.
phase_error_tracking(pe) ==
  LET f1 == d_freq + FMul(d_beta, pe)          \* d_freq += d_beta*phase_error
      p1 == d_phase + (f1 + FMul(d_alpha, pe)) \* d_phase += d_freq + d_alpha*phase_error
  IN  /\ d_phase' = WrapPhase(p1)
      /\ d_freq' = gr_branchless_clip(f1, d_max_freq)
      /\ UNCHANGED <<d_max_freq, d_min_freq, d_loop_bw, d_damping, d_alpha, d_beta>>

\* One tracking update with an arbitrary error from the decision maker.
track(pe) ==
  /\ pc = "idle"
  /\ phase_error_tracking(pe)
  /\ last' = Call("track", pe, FALSE)
  /\ UNCHANGED workvars

\* ------------------------------------------------------------ constellation
\* A complex number of magnitude 1 is its argument, normalised into (-M_PI, M_PI].
NormArg(a) == ((a + M_PI - 1) % M_TWOPI) - (M_PI - 1)

\* gr_expj(phase) (gr_expj.h) = cos(phase) + j*sin(phase), the unit complex
\* number of argument +phase.  With the error of the decision maker negated
\* (-arg(...), below) the update d_phase += d_alpha*phase_error is a negative
\* feedback only for this sign.
gr_expj(phase) == NormArg(phase)

\* complex product: the arguments add
CMul(a, b) == NormArg(a + b)

\* mutant: the sample is rotated by the conjugate of the NCO value
derotate_conj(phase, x) == CMul(gr_expj(-phase), x)

\* nco = gr_expj(d_phase); sample = nco*sample;
derotate(phase, x) == CMul(gr_expj(phase), x)

\* d_constellation->points() of a BPSK constellation: 1 and -1
points == <<0, M_PI>>

\* d_constellation->decision_maker_pe(&sample, &phase_error): the index of the
\* nearest point, and phase_error = -arg(sample*conj(points[index])) as a float
decision_maker(s) ==
  CHOOSE k \in 1..Len(points) :
    \A m \in 1..Len(points) :
      \/ Abs(NormArg(s - points[k])) < Abs(NormArg(s - points[m]))
      \/ Abs(NormArg(s - points[k])) = Abs(NormArg(s - points[m])) /\ k <= m
decision_pe(s) == ToFloat(-NormArg(s - points[decision_maker(s)]))

\* ------------------------------------------------------------- general_work
Unwritten(n) == [k \in 1..n |-> <<>>]

\* mutant: the diagnostic value is written to every slot of the buffer
diag_write_fill(buf, k, v) == [j \in DOMAIN buf |-> <<v>>]

\* if(output_items.size() == 4) { out_err[i] = ...; out_phase[i] = ...; out_freq[i] = ...; }
diag_write(buf, k, v) == IF nchan = 4 THEN [buf EXCEPT ![k] = <<v>>] ELSE buf

\* entry of general_work: the arguments, i = 0, the diagnostic pointers
work_enter(nout, nin, buf, nch) ==
  /\ pc = "idle"
  /\ pc' = "loop"
  /\ noutput_items' = nout /\ ninput_items' = nin /\ nchan' = nch
  /\ in' = buf
  /\ i' = 0
  /\ sample' = 0 /\ phase_error' = 0
  /\ out' = Unwritten(nout)
  /\ out_err' = IF nch = 4 THEN Unwritten(nout) ELSE <<>>
  /\ out_phase' = IF nch = 4 THEN Unwritten(nout) ELSE <<>>
  /\ out_freq' = IF nch = 4 THEN Unwritten(nout) ELSE <<>>
  /\ consumed' = -1 /\ ret' = -1
  /\ last' = Call("general_work", nch, FALSE)
  /\ UNCHANGED loopvars

\* one iteration of while((i < noutput_items) && (i < ninput_items[0]))
work_iter ==
  /\ pc = "loop"
  /\ i < noutput_items /\ i < ninput_items
  /\ LET s == derotate(d_phase, in[i + 1])
         pe == decision_pe(s)
     IN  /\ sample' = s
         /\ phase_error' = pe
         /\ phase_error_tracking(pe)
         /\ out' = [out EXCEPT ![i + 1] = <<decision_maker(s) - 1>>]
         /\ out_err' = diag_write(out_err, i + 1, pe)
         /\ out_phase' = diag_write(out_phase, i + 1, d_phase')
         /\ out_freq' = diag_write(out_freq, i + 1, d_freq')
  /\ i' = i + 1
  /\ UNCHANGED <<pc, noutput_items, ninput_items, nchan, in, consumed, ret, last>>

\* mutant: the call reports the whole output buffer as produced
work_exit_noutput ==
  /\ pc = "loop"
  /\ ~(i < noutput_items /\ i < ninput_items)
  /\ consumed' = i
  /\ ret' = noutput_items
  /\ pc' = "idle"
  /\ UNCHANGED <<loopvars, last, noutput_items, ninput_items, nchan, in, i,
                 sample, phase_error, out, out_err, out_phase, out_freq>>

\* loop exit: consume_each(i); return i;
work_exit ==
  /\ pc = "loop"
  /\ ~(i < noutput_items /\ i < ninput_items)
  /\ consumed' = i
  /\ ret' = i
  /\ pc' = "idle"
  /\ UNCHANGED <<loopvars, last, noutput_items, ninput_items, nchan, in, i,
                 sample, phase_error, out, out_err, out_phase, out_freq>>

\* ---------------------------------------------------------- specifications
GainArgs == (-1)..(GainOne + 1)
BwArgs == (-1)..MaxBw

\* Spec: the six setters, accepted and rejected arguments
Next ==
  \/ \E bw \in BwArgs : set_loop_bandwidth(bw)
  \/ \E df \in GainArgs : set_damping_factor(df)
  \/ \E a \in GainArgs : set_alpha(a)
  \/ \E b \in GainArgs : set_beta(b)
  \/ \E f \in {-2 * FloatStep, 0, 3 * FloatStep} : set_frequency(f)
  \/ \E p \in {0, 2 * FloatStep} : set_phase(p)

Spec == Init /\ [][Next]_vars

\* SpecTrack: the tracking update under every search range fmin <= fmax
InitTrack ==
  \E bw \in 0..MaxBw, b \in BoundPairs : ctor(bw, b[1], b[2])

NextTrack ==
  \/ \E pe \in Floats(MaxErr) : track(pe)
  \/ \E f \in Floats(MaxFreq + 1) : set_frequency(f)
  \/ \E p \in Floats(MaxPhase) : set_phase(p)

SpecTrack == InitTrack /\ [][NextTrack]_vars

\* SpecWork: the stream driver, one call after the other
SampleArgs == {2, -7, M_PI}
Buffers(n) == [1..n -> SampleArgs]

InitWork == ctor(GainOne, -2 * FloatStep, 2 * FloatStep)

NextWork ==
  \/ \E nout \in 0..MaxItems, nin \in 0..MaxItems, nch \in {1, 4} :
       \E buf \in Buffers(nin) : work_enter(nout, nin, buf, nch)
  \/ work_iter
  \/ work_exit

SpecWork == InitWork /\ [][NextWork]_vars
\* -------------------------------------------------------------- properties
\* the argument of a setter call that its range check rejects
Rejected(c) ==
  \/ c.op = "set_loop_bandwidth" /\ c.arg < 0
  \/ c.op \in {"set_damping_factor", "set_alpha", "set_beta"}
       /\ (c.arg < 0 \/ c.arg > GainOne)

\* C1: a setter call with an out-of-range argument throws and leaves every
\* field of the loop state at its value before the call.
C1_RejectedSetterKeepsState ==
  [][Rejected(last') => last'.thrown /\ loopvars' = loopvars]_vars

\* a rejected set_beta(b), b > 1, on a loop whose phase, frequency and gains
\* have all been moved away from their constructed values
C1_Witness ==
  /\ last.op = "set_beta" /\ last.arg > GainOne /\ last.thrown
  /\ d_phase # 0 /\ d_freq # 0 /\ d_beta # 0 /\ d_damping # SqrtHalf

C3_Original == last.op = "track" => Abs(d_freq) <= d_max_freq

\* C3 amended: after a tracking update |frequency| <= |max_freq|; this is
\* |frequency| <= max_freq whenever max_freq >= 0.
C3_FreqMagnitudeBounded == last.op = "track" => Abs(d_freq) <= Abs(d_max_freq)

\* a tracking update driven by a negative error has clipped the frequency
\* at -max_freq
C3_Witness ==
  /\ last.op = "track" /\ last.arg < 0
  /\ d_max_freq > 0 /\ d_freq = -d_max_freq /\ d_beta > 0

\* C4 as stated: min_freq <= frequency <= max_freq after every tracking
\* update and every set_frequency call.
C4_Original ==
  last.op \in {"track", "set_frequency"} =>
    d_min_freq <= d_freq /\ d_freq <= d_max_freq

\* C4 amended: min_freq <= frequency <= max_freq after every set_frequency
\* call; after a tracking update the frequency lies in
\* [-|max_freq|, |max_freq|], whatever min_freq is.
C4_FreqBounds ==
  /\ last.op = "set_frequency" => d_min_freq <= d_freq /\ d_freq <= d_max_freq
  /\ last.op = "track" => -Abs(d_max_freq) <= d_freq /\ d_freq <= Abs(d_max_freq)

\* a tracking update has taken the frequency below min_freq
C4_Witness == last.op = "track" /\ d_freq < d_min_freq /\ d_min_freq <= d_max_freq

\* C5 as stated: alpha and beta are both in [0,1] in every reachable state.
C5_Original ==
  /\ 0 <= d_alpha /\ d_alpha <= GainOne
  /\ 0 <= d_beta /\ d_beta <= GainOne

\* C5 amended: in every reachable state alpha is in [0,1] and beta is in
\* [0,4]; beta exceeds 1 for large loop bandwidths.
C5_GainRange ==
  /\ 0 <= d_alpha /\ d_alpha <= GainOne
  /\ 0 <= d_beta /\ d_beta <= 4 * GainOne

\* an accepted set_loop_bandwidth has derived a beta above 1
C5_Witness ==
  /\ last.op = "set_loop_bandwidth" /\ ~last.thrown
  /\ d_beta > GainOne /\ d_alpha > 0

\* a step that runs one iteration of the loop of general_work
IterStep == pc = "loop" /\ i' = i + 1

Written(buf) == { k \in DOMAIN buf : buf[k] # <<>> }

\* C7: general_work processes min(available_in, available_out) samples,
\* returns, and reports that count as consumed and as produced; the loop
\* state changes only in an iteration, and none runs when a count is 0.
\* Termination: inside the call a step is always possible, every step either
\* returns or raises i by one, and i never passes the minimum.
C7_BatchSizing ==
  /\ [](pc = "idle" /\ last.op = "general_work" =>
          /\ ret = Min(ninput_items, noutput_items)
          /\ consumed = ret
          /\ Written(out) = 1..ret)
  /\ [](pc = "loop" =>
          /\ i <= Min(ninput_items, noutput_items)
          /\ ENABLED (work_iter \/ work_exit))
  /\ [][pc = "loop" =>
          \/ pc' = "idle" /\ i' = i /\ i = Min(ninput_items, noutput_items)
          \/ pc' = "loop" /\ i' = i + 1]_vars
  /\ [][last'.op = "general_work" /\ loopvars' # loopvars =>
          pc = "loop" /\ i < Min(ninput_items, noutput_items)]_vars

\* a call with more input than output has returned a positive count
C7_Witness ==
  /\ pc = "idle" /\ last.op = "general_work"
  /\ ninput_items > noutput_items /\ ret > 0 /\ ret = noutput_items

C9_SetFrequencyWraps ==
  [][last'.op = "set_frequency" =>
       /\ last'.arg > d_max_freq => d_freq' = d_min_freq
       /\ last'.arg < d_min_freq => d_freq' = d_max_freq
       /\ last'.arg <= d_max_freq /\ last'.arg >= d_min_freq => d_freq' = last'.arg
       /\ ~last'.thrown
       /\ <<d_phase, d_max_freq, d_min_freq, d_loop_bw, d_damping, d_alpha, d_beta>>'
            = <<d_phase, d_max_freq, d_min_freq, d_loop_bw, d_damping, d_alpha, d_beta>>]_vars

\* set_frequency above max_freq has stored min_freq on a loop with a
\* non-zero phase
C9_Witness ==
  /\ last.op = "set_frequency" /\ last.arg > d_max_freq
  /\ d_min_freq < d_max_freq /\ d_freq = d_min_freq /\ d_phase # 0

\* C10: track(e) adds beta*e to the frequency, adds the updated, unclipped
\* frequency plus alpha*e to the phase, wraps the phase, and clips the
\* frequency last.
C10_TrackOrder ==
  [][last'.op = "track" =>
       LET e == last'.arg
           f1 == d_freq + FMul(d_beta, e)
       IN  /\ d_phase' = WrapPhase(d_phase + f1 + FMul(d_alpha, e))
           /\ d_freq' = gr_branchless_clip(f1, d_max_freq)]_vars

\* a tracking update with a non-zero error and non-zero gains has left the
\* frequency at the clip level
C10_Witness ==
  /\ last.op = "track" /\ last.arg # 0
  /\ d_alpha > 0 /\ d_beta > 0
  /\ d_max_freq > 0 /\ Abs(d_freq) = d_max_freq
=============================================================================
